---- MODULE Spec2Model ----
(***************************************************************************)
(* Model of the budget computation of verdant-wallet:                      *)
(*   src/src/utils/budgetCalculations.ts  (calculateBudgetSummary)         *)
(*   src/unnamed/part_012                 (the Dashboard that calls it)    *)
(*                                                                         *)
(* Numbers.  Amounts are integers (minor currency units).  The quotients   *)
(* the code forms (remaining / daysLeft, totalSpent / totalBudget * 100)   *)
(* are kept as exact fractions [num, den] in lowest terms, den > 0.        *)
(*                                                                         *)
(* Time.  A Date is an integer: (days since 1 January of EpochYear) *      *)
(* SlotsPerDay + slot, in local time; slot 0 is local midnight 00:00:00.000*)
(* and the slots above it are later instants of the same day.  A           *)
(* transaction_date string is the record of the local fields it denotes,   *)
(* [year, month (1..12), day, slot]; new Date(string) turns it into a Date.*)
(* The wall clock is such a record too.                                    *)
(***************************************************************************)
EXTENDS Integers, Sequences, FiniteSets, Bags

VARIABLES
    budgets,        \* Budget[]      argument of calculateBudgetSummary
    transactions,   \* Transaction[] argument of calculateBudgetSummary
    month,          \* argument: target month, 1..12
    year,           \* argument: target year
    clock,          \* the system clock read by `new Date()`
    summary,        \* Dashboard state budgetSummary (null until computed)
    pc,             \* "input" while the arguments are gathered, then "done"
    previous,       \* the summary an earlier call with the same arguments returned
    recommendation, \* the advisory message rendered from budgetSummary
    txTable,        \* storage: the rows of public.transactions (a bag)
    viewType,       \* Insights state: 'income' | 'expense'
    timeframe,      \* Insights state: 'daily' | 'monthly' | 'yearly'
    fetched,        \* Insights: the rows the last query returned, in its order
    chartData,      \* Insights state: CategoryData[]
    totalAmount,    \* Insights state
    budgetTable,    \* storage: the rows of public.budgets, in insertion order
    budgetPage,     \* Budget page state: budgets, summary and the last toast
    mounted,        \* Insights: whether the page is mounted
    channel,        \* Insights: the 'insights-updates' subscription and what its callback closes over
    requests,       \* Insights: the fetchInsightsData calls awaiting their response
    events,         \* change notifications on their way to the browser, oldest first
    started,        \* Insights: the number of fetchInsightsData calls so far
    shown,          \* Insights: the fetch whose response was set last
    dropped,        \* whether a notification has reached no subscription
    adminRow,       \* storage: the account in admin_users
    sessions,       \* storage: the rows of admin_sessions
    token,          \* localStorage 'admin_session_token'
    adminUser,      \* AdminAuthProvider state
    dateNow,        \* Date.now(), in units of LockSpan
    procs,          \* the signIn calls that await a response
    failures,       \* the failed password attempts since the last successful login
    result,         \* what signIn returned, if the last step was its return
    verified,       \* what verifySession returned, if the last step was its return
    setting,        \* storage: system_settings.value of key 'maintenance_mode'
    isMaintenanceMode, \* MaintenanceWrapper state
    loading,        \* MaintenanceWrapper state
    check,          \* MaintenanceWrapper: how far checkMaintenanceMode is, and what its query read
    updates,        \* UPDATE notifications on system_settings on their way, oldest first
    observed        \* the value MaintenanceWrapper was given last

insightsVars == <<txTable, viewType, timeframe, fetched, chartData, totalAmount>>

asyncVars == <<mounted, channel, requests, events, started, shown, dropped>>

adminVars == <<adminRow, sessions, token, adminUser, dateNow, procs, failures, result, verified>>

maintVars == <<setting, isMaintenanceMode, loading, check, updates, observed>>

vars == <<budgets, transactions, month, year, clock, summary, pc, previous,
          recommendation, insightsVars, budgetTable, budgetPage, asyncVars, adminVars, maintVars>>

----------------------------------------------------------------------------
(* Bounds of the model *)

MaxBudgets == 2     \* budget rows passed in
MaxTx == 2          \* transaction rows passed in
NumYears == 2       \* calendar years the arguments and the clock range over
SlotsPerDay == 2    \* instants distinguished within one day
MaxTicks == 3       \* instants the clock advances between two calls
MaxRows == 3        \* rows in public.transactions
MaxSaved == 3       \* rows in public.budgets
MaxFetches == 3     \* fetchInsightsData calls of one mounted Insights page
MaxEvents == 1      \* change notifications under way at once
MaxFailures == 4    \* failed password attempts between two successful logins
MaxSessions == 2    \* rows of admin_sessions
MaxTime == 3        \* lock periods that pass
MaxConcurrent == 2  \* signIn calls under way at once
MaxUpdates == 2     \* UPDATE notifications on system_settings under way at once

(* budgets.year CHECK (year >= 2020 ...) *)
MinYear == 2020

Years == MinYear..(MinYear + NumYears - 1)
Months == 1..12
EpochYear == MinYear - 1

----------------------------------------------------------------------------
(* Exact fractions *)

RECURSIVE Gcd(_, _)
Gcd(a, b) == IF b = 0 THEN a ELSE Gcd(b, a % b)

Abs(n) == IF n < 0 THEN 0 - n ELSE n

\* n / d for integers n, d with d > 0, in lowest terms
Frac(n, d) ==
    LET g == Gcd(Abs(n), d)
    IN  [num |-> n \div g, den |-> d \div g]

FracTimes(f, k) == Frac(f.num * k, f.den)

\* f > k for a fraction f and an integer k
FracGT(f, k) == f.num > k * f.den

\* Math.max(k, f) for an integer k and a fraction f
FracMax(k, f) == IF FracGT(f, k) THEN f ELSE Frac(k, 1)

----------------------------------------------------------------------------
(* JavaScript Date, local time *)

IsLeap(y) == (y % 4 = 0 /\ y % 100 # 0) \/ y % 400 = 0

\* length of month index mi (0..11) of year y
MonthLength(y, mi) ==
    IF mi = 1 THEN (IF IsLeap(y) THEN 29 ELSE 28)
    ELSE IF mi \in {3, 5, 8, 10} THEN 30 ELSE 31

DaysInYear(y) == IF IsLeap(y) THEN 366 ELSE 365

RECURSIVE DaysBeforeYear(_)
DaysBeforeYear(y) ==
    IF y <= EpochYear THEN 0 ELSE DaysBeforeYear(y - 1) + DaysInYear(y - 1)

RECURSIVE DaysBeforeMonth(_, _)
DaysBeforeMonth(y, mi) ==
    IF mi = 0 THEN 0 ELSE DaysBeforeMonth(y, mi - 1) + MonthLength(y, mi - 1)

\* MakeDay: the day number of (y, mi, d); a month index of 12 or more rolls
\* into the following year and a day of 0 or less into the preceding month
DayNumber(y, mi, d) ==
    DaysBeforeYear(y + (mi \div 12)) + DaysBeforeMonth(y + (mi \div 12), mi % 12)
        + d - 1

\* new Date(y, mi, d): local midnight of that day
NewDate(y, mi, d) == DayNumber(y, mi, d) * SlotsPerDay

\* new Date(t.transaction_date)
ParseDate(s) == DayNumber(s.year, s.month - 1, s.day) * SlotsPerDay + s.slot

RECURSIVE YearOfDay(_, _)
YearOfDay(n, y) == IF n < DaysBeforeYear(y + 1) THEN y ELSE YearOfDay(n, y + 1)

RECURSIVE DateInYear(_, _, _)
DateInYear(r, y, mi) ==
    IF r < MonthLength(y, mi) THEN r + 1
    ELSE DateInYear(r - MonthLength(y, mi), y, mi + 1)

\* Date.prototype.getDate(): the day of the month of a Date
GetDate(t) ==
    LET n == t \div SlotsPerDay
        y == YearOfDay(n, EpochYear)
    IN  DateInYear(n - DaysBeforeYear(y), y, 0)

\* Date.prototype.getFullYear()
GetFullYear(t) == YearOfDay(t \div SlotsPerDay, EpochYear)

RECURSIVE MonthInYear(_, _, _)
MonthInYear(r, y, mi) ==
    IF r < MonthLength(y, mi) THEN mi
    ELSE MonthInYear(r - MonthLength(y, mi), y, mi + 1)

\* Date.prototype.getMonth(): 0..11
GetMonth(t) ==
    MonthInYear((t \div SlotsPerDay) - DaysBeforeYear(GetFullYear(t)), GetFullYear(t), 0)

----------------------------------------------------------------------------
(* budgetCalculations.ts: calculateBudgetSummary, step by step *)

Null == "null"

\* rows.reduce((sum, r) => sum + r.amount, 0)
RECURSIVE SumAmount(_)
SumAmount(rows) ==
    IF rows = <<>> THEN 0 ELSE SumAmount(SubSeq(rows, 1, Len(rows) - 1)) + rows[Len(rows)].amount

TotalBudget_TotalRowOnly(bs) ==
    SumAmount(SelectSeq(bs, LAMBDA b : b.category_id = Null))

\* const totalBudget = budgets.reduce(...)
TotalBudget(bs) == SumAmount(bs)

\* const startOfMonth = new Date(year, month - 1, 1)
StartOfMonth(m, y) == NewDate(y, m - 1, 1)

\* const endOfMonth = new Date(year, month, 0)
EndOfMonth(m, y) == NewDate(y, m, 0)

\* const monthlyExpenses = transactions.filter(...)
MonthlyExpenses(ts, m, y) ==
    SelectSeq(ts, LAMBDA t :
        /\ t.type = "expense"
        /\ ParseDate(t.transaction_date) >= StartOfMonth(m, y)
        /\ ParseDate(t.transaction_date) <= EndOfMonth(m, y))

\* const totalSpent = monthlyExpenses.reduce(...)
TotalSpent(ts, m, y) == SumAmount(MonthlyExpenses(ts, m, y))

Remaining_Floored(tb, sp) == IF tb - sp > 0 THEN tb - sp ELSE 0

\* const remaining = totalBudget - totalSpent
Remaining(tb, sp) == tb - sp

DaysLeft_Exclusive(m, y, now) ==
    LET d == GetDate(NewDate(y, m, 0)) - now.day
    IN  IF d > 0 THEN d ELSE 0

\* const today = new Date(); const lastDay = new Date(year, month, 0);
\* const daysLeft = Math.max(0, lastDay.getDate() - today.getDate() + 1)
DaysLeft(m, y, now) ==
    LET d == GetDate(NewDate(y, m, 0)) - now.day + 1
    IN  IF d > 0 THEN d ELSE 0

DailyAllowance_NoFloor(rem, dl) ==
    IF dl > 0 THEN Frac(rem, dl) ELSE Frac(0, 1)

DailyAllowance_Truncated(rem, dl) ==
    IF dl > 0 THEN FracMax(0, Frac(rem \div dl, 1)) ELSE Frac(0, 1)

\* a quotient by zero is no finite number: its denominator is kept 0
DailyAllowance_NoZeroGuard(rem, dl) ==
    IF dl > 0 THEN FracMax(0, Frac(rem, dl))
    ELSE [num |-> IF rem > 0 THEN 1 ELSE 0, den |-> 0]

\* const dailyAllowance = daysLeft > 0 ? Math.max(0, remaining / daysLeft) : 0
DailyAllowance(rem, dl) ==
    IF dl > 0 THEN FracMax(0, Frac(rem, dl)) ELSE Frac(0, 1)

Percentage_NoBudgetFull(sp, tb) ==
    IF tb > 0 THEN FracTimes(Frac(sp, tb), 100)
    ELSE IF sp > 0 THEN Frac(100, 1) ELSE Frac(0, 1)

\* const percentage = totalBudget > 0 ? (totalSpent / totalBudget) * 100 : 0
Percentage(sp, tb) ==
    IF tb > 0 THEN FracTimes(Frac(sp, tb), 100) ELSE Frac(0, 1)

Status_Inclusive(p) ==
    IF FracGT(p, 100) THEN "danger"
    ELSE IF p.num >= 80 * p.den THEN "warning"
    ELSE "safe"

\* let status = 'safe'; if (percentage > 100) ... else if (percentage > 80) ...
Status(p) ==
    IF FracGT(p, 100) THEN "danger"
    ELSE IF FracGT(p, 80) THEN "warning"
    ELSE "safe"

calculateBudgetSummary(bs, ts, m, y, now) ==
    LET totalBudget == TotalBudget(bs)
        totalSpent == TotalSpent(ts, m, y)
        remaining == Remaining(totalBudget, totalSpent)
        daysLeft == DaysLeft(m, y, now)
        dailyAllowance == DailyAllowance(remaining, daysLeft)
        percentage == Percentage(totalSpent, totalBudget)
    IN  [totalBudget |-> totalBudget,
         totalSpent |-> totalSpent,
         remaining |-> remaining,
         dailyAllowance |-> dailyAllowance,
         daysLeft |-> daysLeft,
         percentage |-> percentage,
         status |-> Status(percentage)]

\* Number.prototype.toFixed(0) of a fraction: the nearest integer, the
\* larger one of two equally near; the sign is put back on a negative number
ToFixed0(f) ==
    IF f.num >= 0 THEN (2 * f.num + f.den) \div (2 * f.den)
    ELSE 0 - ((2 * (0 - f.num) + f.den) \div (2 * f.den))

generateBudgetRecommendation_DaysFirst(s) ==
    IF s.daysLeft <= 0 THEN [kind |-> "ended"]
    ELSE IF FracGT(s.percentage, 100)
    THEN [kind |-> "over", amount |-> ToFixed0(Frac(Abs(s.remaining), 1))]
    ELSE IF FracGT(s.percentage, 80)
    THEN [kind |-> "alert", amount |-> ToFixed0(Frac(s.remaining, 1)), days |-> s.daysLeft]
    ELSE [kind |-> "daily", amount |-> ToFixed0(s.dailyAllowance), days |-> s.daysLeft]

\* the message is the record of its template and of the numbers put in it:
\* "over"  You're <amount> over budget. Consider reducing expenses.
\* "alert" Budget alert! You have <amount> left for <days> days.
\* "daily" You can spend <amount> per day for the next <days> days.
\* "ended" Great job staying within budget this month!
generateBudgetRecommendation(s) ==
    IF FracGT(s.percentage, 100)
    THEN [kind |-> "over", amount |-> ToFixed0(Frac(Abs(s.remaining), 1))]
    ELSE IF FracGT(s.percentage, 80)
    THEN [kind |-> "alert", amount |-> ToFixed0(Frac(s.remaining, 1)), days |-> s.daysLeft]
    ELSE IF s.daysLeft > 0
    THEN [kind |-> "daily", amount |-> ToFixed0(s.dailyAllowance), days |-> s.daysLeft]
    ELSE [kind |-> "ended"]

----------------------------------------------------------------------------
(* The arguments the calls are made with *)

\* useState<BudgetSummary | null>(null)
NullSummary == [status |-> Null]

CalendarDates == 
    {d \in [year : Years, month : Months, day : 1..31] :
        d.day <= MonthLength(d.year, d.month - 1)}

\* every instant of the calendar window
ClockValues ==
    {[year |-> d.year, month |-> d.month, day |-> d.day, slot |-> s] :
        d \in CalendarDates, s \in 0..(SlotsPerDay - 1)}

\* a few wall-clock readings: the 31st, the 10th and the 29th of a month
ClockSamples ==
    {[year |-> MinYear, month |-> 1, day |-> 31, slot |-> 0],
     [year |-> MinYear, month |-> 2, day |-> 10, slot |-> SlotsPerDay - 1],
     [year |-> MinYear, month |-> 2, day |-> 29, slot |-> 0]}

\* budget rows as the Dashboard selects them: 'amount, category_id'
BudgetRows == [amount : {50, 100}, category_id : {Null, "c1"}]

Stamp(y, m, d, s) == [year |-> y, month |-> m, day |-> d, slot |-> s]

\* transaction rows dated inside the target month
TxRowsInMonth(m, y) ==
    {[amount |-> 40, type |-> "expense", transaction_date |-> Stamp(y, m, 1, 0)],
     [amount |-> 60, type |-> "expense", transaction_date |-> Stamp(y, m, 1, SlotsPerDay - 1)],
     [amount |-> 60, type |-> "income", transaction_date |-> Stamp(y, m, 2, 0)]}

PrevMonth(m, y) == IF m = 1 THEN [month |-> 12, year |-> y - 1] ELSE [month |-> m - 1, year |-> y]
NextMonth(m, y) == IF m = 12 THEN [month |-> 1, year |-> y + 1] ELSE [month |-> m + 1, year |-> y]

\* the instants around the two ends of the target month, and the same month
\* of the following year
BoundaryStamps(m, y) ==
    LET p == PrevMonth(m, y)
        n == NextMonth(m, y)
    IN  {Stamp(p.year, p.month, MonthLength(p.year, p.month - 1), s) : s \in 0..(SlotsPerDay - 1)}
        \cup {Stamp(y, m, 1, s) : s \in 0..(SlotsPerDay - 1)}
        \cup {Stamp(y, m, MonthLength(y, m - 1), s) : s \in 0..(SlotsPerDay - 1)}
        \cup {Stamp(n.year, n.month, 1, s) : s \in 0..(SlotsPerDay - 1)}
        \cup {Stamp(y + 1, m, 1, 0)}

\* transaction rows dated around the ends of the target month
TxRowsAtBoundary(m, y) ==
    {[amount |-> 40, type |-> "expense", transaction_date |-> d] : d \in BoundaryStamps(m, y)}
    \cup {[amount |-> 60, type |-> "income", transaction_date |-> d] : d \in BoundaryStamps(m, y)}

\* A JavaScript number (IEEE 754 binary64) between 2^-4 and 2^3, as the
\* integer hi * Limb + lo that counts units of 2^-56: every binary64 number
\* in that range is a whole number of units.
Limb == 2^29
MantissaBits == 53

Zero == [hi |-> 0, lo |-> 0]

\* the number JSON.parse and Number() make of a NUMERIC amount, given in
\* hundredths: the binary64 number nearest to cents / 100
ToNumber(cents) ==
    CASE cents = 10 -> [hi |-> 13421772, lo |-> 429496730]
      [] cents = 20 -> [hi |-> 26843545, lo |-> 322122548]
      [] cents = 30 -> [hi |-> 40265318, lo |-> 214748364]
      [] cents = 70 -> [hi |-> 93952409, lo |-> 322122544]

\* the number of binary digits of n
BitLength(n) == IF n = 0 THEN 0 ELSE CHOOSE k \in 1..30 : 2^(k - 1) <= n /\ n < 2^k

\* hi * Limb + lo rounded to MantissaBits significant digits, ties to even
RoundToNearestEven(hi, lo) ==
    LET length == IF hi > 0 THEN 29 + BitLength(hi) ELSE BitLength(lo)
        r == IF length > MantissaBits THEN length - MantissaBits ELSE 0
        rem == lo % (2^r)
        down == lo - rem
        up == r > 0 /\ (\/ 2 * rem > 2^r
                        \/ 2 * rem = 2^r /\ (down \div (2^r)) % 2 = 1)
        rounded == IF up THEN down + 2^r ELSE down
    IN  IF rounded = Limb THEN [hi |-> hi + 1, lo |-> 0] ELSE [hi |-> hi, lo |-> rounded]

\* x + y without rounding
ExactPlus(x, y) ==
    [hi |-> x.hi + y.hi + ((x.lo + y.lo) \div Limb), lo |-> (x.lo + y.lo) % Limb]

\* x + y of two numbers
Plus(x, y) == RoundToNearestEven(ExactPlus(x, y).hi, ExactPlus(x, y).lo)

\* x < y
Less(x, y) == x.hi < y.hi \/ (x.hi = y.hi /\ x.lo < y.lo)

\* no subscription; no fetch
NoChannel == [id |-> 0, viewType |-> Null, timeframe |-> Null]
NoFetch == [seq |-> 0, viewType |-> Null, timeframe |-> Null, cause |-> Null]

\* Insights not mounted
AsyncIdle ==
    /\ mounted = FALSE
    /\ channel = NoChannel
    /\ requests = {}
    /\ events = <<>>
    /\ started = 0
    /\ shown = NoFetch
    /\ dropped = FALSE

\* useState<AdminUser | null>(null)
NoAdmin == [id |-> Null]

\* localStorage.getItem('admin_session_token') of an absent item
NoToken == 0

\* a timestamptz column that is NULL
NullTime == -1

\* an active account that nobody has tried yet
AdminRow0 ==
    [id |-> "a1", email |-> "admin", password_hash |-> "secret", is_active |-> TRUE,
     requires_2fa |-> TRUE, failed_login_attempts |-> 0, locked_until |-> NullTime,
     last_login |-> NullTime]

NoResult == [returned |-> FALSE, success |-> FALSE, error |-> Null, requires2fa |-> FALSE]
NotVerified == [returned |-> FALSE, value |-> FALSE]

\* nobody signed in, no signIn under way
AdminIdle ==
    /\ adminRow = AdminRow0
    /\ sessions = <<>>
    /\ token = NoToken
    /\ adminUser = NoAdmin
    /\ dateNow = 0
    /\ procs = {}
    /\ failures = 0
    /\ result = NoResult
    /\ verified = NotVerified

\* checkMaintenanceMode not called yet
CheckIdle == [pc |-> "idle", value |-> Null]

\* MaintenanceWrapper before its effect: useState(false), useState(true)
MaintenanceIdle ==
    /\ setting = "false"
    /\ isMaintenanceMode = FALSE
    /\ loading = TRUE
    /\ check = CheckIdle
    /\ updates = <<>>
    /\ observed = Null

RestIdle == AsyncIdle /\ AdminIdle /\ MaintenanceIdle

\* the state of what a specification leaves alone: nothing computed before,
\* the Insights page on its initial selection, empty storage
InsightsIdle ==
    /\ txTable = EmptyBag
    /\ viewType = "expense"
    /\ timeframe = "monthly"
    /\ fetched = <<>>
    /\ chartData = <<>>
    /\ totalAmount = Zero

\* useState of the Budget page: no budgets, a summary of zeros, no toast
InitialBudgetPage ==
    [budgets |-> <<>>,
     summary |-> [totalBudget |-> 0, totalSpent |-> 0, remaining |-> 0,
                  dailyAllowance |-> Frac(0, 1), daysLeft |-> 0,
                  percentage |-> Frac(0, 1)],
     toast |-> Null]

BudgetIdle ==
    /\ budgetTable = <<>>
    /\ budgetPage = InitialBudgetPage

OtherPagesIdle ==
    /\ previous = NullSummary
    /\ recommendation = Null
    /\ InsightsIdle
    /\ BudgetIdle
    /\ RestIdle

\* budgetCalculations.ts getBudgetStatusText(status)
getBudgetStatusText(status) ==
    CASE status = "safe" -> "On Track"
      [] status = "warning" -> "Approaching Limit"
      [] status = "danger" -> "Over Budget"
      [] OTHER -> "Unknown"

\* Budget.tsx getBudgetStatus(percentage).text
getBudgetStatus(percentage) ==
    IF ~FracGT(percentage, 60) THEN "On Track"
    ELSE IF ~FracGT(percentage, 80) THEN "Approaching Limit"
    ELSE "Over Budget"

\* BudgetProgressCard: the status message under the figures
StatusMessage(s) ==
    IF s.daysLeft > 0
    THEN IF s.remaining > 0
         THEN [kind |-> "Spend up to", amount |-> s.dailyAllowance, days |-> s.daysLeft]
         ELSE [kind |-> "Over budget by", amount |-> Abs(s.remaining)]
    ELSE [kind |-> "Month ended"]

\* computeMonthlyTotals(transactions, month, year), month being 0..11; the
\* Dashboard's own filter in fetchDashboardData is the same
computeMonthlyTotals(ts, mi, y) ==
    LET monthlyData == SelectSeq(ts, LAMBDA t :
            /\ GetMonth(ParseDate(t.transaction_date)) = mi
            /\ GetFullYear(ParseDate(t.transaction_date)) = y)
    IN  [monthlyIncome |-> SumAmount(SelectSeq(monthlyData, LAMBDA t : t.type = "income")),
         monthlyExpenses |-> SumAmount(SelectSeq(monthlyData, LAMBDA t : t.type = "expense"))]

----------------------------------------------------------------------------
(* Actions *)

\* one more budget row in the fetched list (no ORDER BY: any order)
AddBudget(b) ==
    /\ pc = "input"
    /\ Len(budgets) < MaxBudgets
    /\ budgets' = Append(budgets, b)
    /\ UNCHANGED <<transactions, month, year, clock, summary, pc>>
    /\ UNCHANGED <<previous, recommendation, insightsVars, budgetTable, budgetPage, asyncVars, adminVars, maintVars>>

\* .order('transaction_date', { ascending: false })
SortedDescending(ts) ==
    \A i \in 1..(Len(ts) - 1) :
        ParseDate(ts[i].transaction_date) >= ParseDate(ts[i + 1].transaction_date)

InsertAt(ts, i, t) == SubSeq(ts, 1, i) \o <<t>> \o SubSeq(ts, i + 1, Len(ts))

\* one more transaction row in the fetched list, which is ordered by
\* transaction_date, latest first
AddTransaction(t) ==
    /\ pc = "input"
    /\ Len(transactions) < MaxTx
    /\ \E i \in 0..Len(transactions) :
        /\ SortedDescending(InsertAt(transactions, i, t))
        /\ transactions' = InsertAt(transactions, i, t)
    /\ UNCHANGED <<budgets, month, year, clock, summary, pc>>
    /\ UNCHANGED <<previous, recommendation, insightsVars, budgetTable, budgetPage, asyncVars, adminVars, maintVars>>

\* const summary = calculateBudgetSummary(budgetData, transactions, month, year);
\* setBudgetSummary(summary)
Calculate ==
    /\ pc = "input"
    /\ summary' = calculateBudgetSummary(budgets, transactions, month, year, clock)
    /\ recommendation' = generateBudgetRecommendation(summary')
    /\ pc' = "done"
    /\ UNCHANGED <<budgets, transactions, month, year, clock>>
    /\ UNCHANGED <<previous, insightsVars, budgetTable, budgetPage, asyncVars, adminVars, maintVars>>

----------------------------------------------------------------------------
(* Spec: the amounts vary (budget rows, transactions of the target month) *)

Init ==
    /\ budgets = <<>>
    /\ transactions = <<>>
    /\ month \in Months
    /\ year \in Years
    /\ clock \in ClockSamples
    /\ summary = NullSummary
    /\ pc = "input"
    /\ OtherPagesIdle

Next ==
    \/ \E b \in BudgetRows : AddBudget(b)
    \/ \E t \in TxRowsInMonth(month, year) : AddTransaction(t)
    \/ Calculate

Spec == Init /\ [][Next]_vars

(* SpecSpent: the transaction dates vary around the ends of the target month *)

InitSpent ==
    /\ budgets \in {<<>>, <<[amount |-> 100, category_id |-> Null]>>}
    /\ transactions = <<>>
    /\ month \in Months
    /\ year \in Years
    /\ clock = Stamp(MinYear, 1, 1, 0)
    /\ summary = NullSummary
    /\ pc = "input"
    /\ OtherPagesIdle

NextSpent ==
    \/ \E t \in TxRowsAtBoundary(month, year) : AddTransaction(t)
    \/ Calculate

SpecSpent == InitSpent /\ [][NextSpent]_vars

(* SpecDays: the clock and the target period vary over the whole calendar *)

InitDays ==
    /\ budgets \in {<<>>, <<[amount |-> 100, category_id |-> Null]>>}
    /\ transactions = <<>>
    /\ month \in Months
    /\ year \in Years
    /\ clock \in ClockValues
    /\ summary = NullSummary
    /\ pc = "input"
    /\ OtherPagesIdle

NextDays == Calculate

SpecDays == InitDays /\ [][NextDays]_vars

(* SpecTwice: the same call made again after the clock has moved on *)

\* the instant after c
NextInstant(c) ==
    IF c.slot + 1 < SlotsPerDay THEN [c EXCEPT !.slot = c.slot + 1]
    ELSE IF c.day < MonthLength(c.year, c.month - 1)
    THEN [c EXCEPT !.day = c.day + 1, !.slot = 0]
    ELSE IF c.month < 12 THEN [c EXCEPT !.month = c.month + 1, !.day = 1, !.slot = 0]
    ELSE [year |-> c.year + 1, month |-> 1, day |-> 1, slot |-> 0]

\* the clock readings up to MaxTicks instants after a sample
TickRange ==
    {c \in ClockValues :
        \E s0 \in ClockSamples :
            ParseDate(s0) <= ParseDate(c) /\ ParseDate(c) <= ParseDate(s0) + MaxTicks}

\* time passes between two calls
Tick ==
    /\ pc = "done"
    /\ NextInstant(clock) \in TickRange
    /\ clock' = NextInstant(clock)
    /\ UNCHANGED <<budgets, transactions, month, year, summary, pc>>
    /\ UNCHANGED <<previous, recommendation, insightsVars, budgetTable, budgetPage, asyncVars, adminVars, maintVars>>

\* calculateBudgetSummary called once more with the arguments of the first call
CalculateAgain ==
    /\ pc = "done"
    /\ previous' = summary
    /\ summary' = calculateBudgetSummary(budgets, transactions, month, year, clock)
    /\ recommendation' = generateBudgetRecommendation(summary')
    /\ pc' = "again"
    /\ UNCHANGED <<budgets, transactions, month, year, clock>>
    /\ UNCHANGED <<insightsVars, budgetTable, budgetPage, asyncVars, adminVars, maintVars>>

InitTwice ==
    /\ budgets \in {<<>>, <<[amount |-> 100, category_id |-> Null]>>}
    /\ transactions = <<>>
    /\ month \in Months
    /\ year \in Years
    /\ clock \in ClockSamples
    /\ summary = NullSummary
    /\ pc = "input"
    /\ OtherPagesIdle

NextTwice ==
    \/ Calculate
    \/ Tick
    \/ CalculateAgain

SpecTwice == InitTwice /\ [][NextTwice]_vars

----------------------------------------------------------------------------
(* Insights.tsx: fetchInsightsData *)

\* the signed-in user, and somebody else
User == "u1"
OtherUser == "u2"

\* public.categories: the rows a transaction's category_id may refer to.
\* Nothing keeps the names of two categories apart; icon is optional.
CategoryIds == {"c1", "c2", "c3"}

CategoryRow(id) ==
    CASE id = "c1" -> [name |-> "Food", color |-> "red", icon |-> "burger"]
      [] id = "c2" -> [name |-> "Food", color |-> "blue", icon |-> "cart"]
      [] id = "c3" -> [name |-> "Transport", color |-> "green", icon |-> Null]

\* transaction.categories?.field || fallback, where categories ( name, color,
\* icon ) is the joined row, null for a transaction without a category
FieldOr(t, field, fallback) ==
    IF t.category_id = Null THEN fallback
    ELSE IF CategoryRow(t.category_id)[field] \in {Null, ""} THEN fallback
    ELSE CategoryRow(t.category_id)[field]

StartDate_YearIsMonth(tf, now) ==
    CASE tf = "daily" -> NewDate(now.year, now.month - 1, now.day)
      [] tf = "monthly" -> NewDate(now.year, now.month - 1, 1)
      [] tf = "yearly" -> NewDate(now.year, now.month - 1, 1)

\* switch (timeframe) { ... }
StartDate(tf, now) ==
    CASE tf = "daily" -> NewDate(now.year, now.month - 1, now.day)
      [] tf = "monthly" -> NewDate(now.year, now.month - 1, 1)
      [] tf = "yearly" -> NewDate(now.year, 0, 1)

\* .eq('user_id', user?.id).eq('type', viewType)
\* .gte('transaction_date', startDate.toISOString())
\* .lte('transaction_date', now.toISOString())
QueryMatches(t, v, tf, now) ==
    /\ t.user_id = User
    /\ t.type = v
    /\ ParseDate(t.transaction_date) >= StartDate(tf, now)
    /\ ParseDate(t.transaction_date) <= ParseDate(now)

\* the rows of the table the query selects
QueryRows(table, v, tf, now) ==
    LET hit == {t \in BagToSet(table) : QueryMatches(t, v, tf, now)}
    IN  [t \in hit |-> CopiesIn(t, table)]

\* the orders a query without ORDER BY may return the rows of a bag in
RECURSIVE BagSeqs(_)
BagSeqs(B) ==
    IF BagToSet(B) = {} THEN {<<>>}
    ELSE UNION {{<<t>> \o rest : rest \in BagSeqs(B (-) SetToBag({t}))} : t \in BagToSet(B)}

CategoryName(t) == FieldOr(t, "name", "Uncategorized")

\* the body of the forEach: categoryMap, a Map in insertion order, after t
MapAdd(map, t) ==
    IF \E i \in DOMAIN map : map[i].name = CategoryName(t)
    THEN [i \in DOMAIN map |->
            IF map[i].name = CategoryName(t)
            THEN [map[i] EXCEPT !.total = Plus(map[i].total, ToNumber(t.amount))]
            ELSE map[i]]
    ELSE Append(map, [name |-> CategoryName(t),
                      total |-> ToNumber(t.amount),
                      color |-> FieldOr(t, "color", "#6B7280"),
                      icon |-> FieldOr(t, "icon", "page")])

\* (transactions || []).forEach(...)
RECURSIVE CategoryMap(_)
CategoryMap(rows) ==
    IF rows = <<>> THEN <<>>
    ELSE MapAdd(CategoryMap(SubSeq(rows, 1, Len(rows) - 1)), rows[Len(rows)])

InsertDescending_Unstable(sorted, x) ==
    LET before == {i \in DOMAIN sorted : Less(x.value, sorted[i].value)}
        k == Cardinality(before)
    IN  SubSeq(sorted, 1, k) \o <<x>> \o SubSeq(sorted, k + 1, Len(sorted))

\* x put behind every entry that does not sort after it
InsertDescending(sorted, x) ==
    LET before == {i \in DOMAIN sorted : ~Less(sorted[i].value, x.value)}
        k == Cardinality(before)
    IN  SubSeq(sorted, 1, k) \o <<x>> \o SubSeq(sorted, k + 1, Len(sorted))

\* .sort((a, b) => b.value - a.value): Array.prototype.sort is stable
RECURSIVE SortDescending(_)
SortDescending(data) ==
    IF data = <<>> THEN <<>>
    ELSE InsertDescending(SortDescending(SubSeq(data, 1, Len(data) - 1)), data[Len(data)])

\* Array.from(categoryMap.entries()).map(...).sort(...)
ChartDataOf(rows) ==
    LET map == CategoryMap(rows)
    IN  SortDescending([i \in DOMAIN map |->
            [name |-> map[i].name, value |-> map[i].total,
             color |-> map[i].color, icon |-> map[i].icon]])

\* let total = 0; ... total += amount
RECURSIVE TotalOf(_)
TotalOf(rows) ==
    IF rows = <<>> THEN Zero
    ELSE Plus(TotalOf(SubSeq(rows, 1, Len(rows) - 1)), ToNumber(rows[Len(rows)].amount))

\* (category.value / totalAmount) * 100: the division that is made
PercentOfTotal(value, total) == [dividend |-> value, divisor |-> total]

RenderInsights_AlwaysChart(data, total) ==
    [kind |-> "chart",
     percentage |-> [i \in DOMAIN data |-> PercentOfTotal(data[i].value, total)]]

\* chartData.length === 0 ? <the empty state> : <the chart and the bars>
RenderInsights(data, total) ==
    IF Len(data) = 0 THEN [kind |-> "empty"]
    ELSE [kind |-> "chart",
          percentage |-> [i \in DOMAIN data |-> PercentOfTotal(data[i].value, total)]]

\* one more row in public.transactions
InsertTransaction(t) ==
    /\ pc = "input"
    /\ BagCardinality(txTable) < MaxRows
    /\ txTable' = txTable (+) SetToBag({t})
    /\ UNCHANGED <<viewType, timeframe, fetched, chartData, totalAmount>>
    /\ UNCHANGED <<budgets, transactions, month, year, clock, summary, pc>>
    /\ UNCHANGED <<previous, recommendation, budgetTable, budgetPage, asyncVars, adminVars, maintVars>>

\* fetchInsightsData with the selection (v, tf): the query, the aggregation,
\* setChartData and setTotalAmount
FetchWith(v, tf) ==
    \E rows \in BagSeqs(QueryRows(txTable, v, tf, clock)) :
        /\ fetched' = rows
        /\ chartData' = ChartDataOf(rows)
        /\ totalAmount' = TotalOf(rows)

\* useEffect on mount
fetchInsightsData ==
    /\ pc = "input"
    /\ FetchWith(viewType, timeframe)
    /\ pc' = "done"
    /\ UNCHANGED <<txTable, viewType, timeframe>>
    /\ UNCHANGED <<budgets, transactions, month, year, clock, summary>>
    /\ UNCHANGED <<previous, recommendation, budgetTable, budgetPage, asyncVars, adminVars, maintVars>>

\* onClick={() => setViewType(v)}, and the effect it triggers
SetViewType(v) ==
    /\ pc = "done"
    /\ v # viewType
    /\ viewType' = v
    /\ FetchWith(v, timeframe)
    /\ UNCHANGED <<txTable, timeframe>>
    /\ UNCHANGED <<budgets, transactions, month, year, clock, summary, pc>>
    /\ UNCHANGED <<previous, recommendation, budgetTable, budgetPage, asyncVars, adminVars, maintVars>>

\* onClick={() => setTimeframe(period)}, and the effect it triggers
SetTimeframe(tf) ==
    /\ pc = "done"
    /\ tf # timeframe
    /\ timeframe' = tf
    /\ FetchWith(viewType, tf)
    /\ UNCHANGED <<txTable, viewType>>
    /\ UNCHANGED <<budgets, transactions, month, year, clock, summary, pc>>
    /\ UNCHANGED <<previous, recommendation, budgetTable, budgetPage, asyncVars, adminVars, maintVars>>

ViewTypes == {"income", "expense"}
Timeframes == {"daily", "monthly", "yearly"}

\* the clock of the Insights page: an afternoon in mid-March, and the first
\* instant of a year
InsightsClocks ==
    {Stamp(MinYear + 1, 3, 15, SlotsPerDay - 1), Stamp(MinYear + 1, 1, 1, 0)}

\* rows of the user dated now: two categories of one name, a third one and
\* none, with amounts in hundredths
RowsByCategory(now) ==
    {[user_id |-> User, amount |-> r[2], type |-> r[3],
      transaction_date |-> now, category_id |-> r[1]] :
        r \in {<<"c1", 10, "expense">>, <<"c1", 70, "expense">>,
               <<"c2", 10, "expense">>, <<"c3", 20, "expense">>,
               <<"c3", 30, "expense">>, <<Null, 10, "expense">>,
               <<Null, 30, "expense">>, <<"c3", 10, "income">>}}

PreviousInstant(c) ==
    IF c.slot > 0 THEN [c EXCEPT !.slot = c.slot - 1]
    ELSE IF c.day > 1 THEN [c EXCEPT !.day = c.day - 1, !.slot = SlotsPerDay - 1]
    ELSE IF c.month > 1
    THEN [c EXCEPT !.month = c.month - 1,
                   !.day = MonthLength(c.year, c.month - 2), !.slot = SlotsPerDay - 1]
    ELSE [year |-> c.year - 1, month |-> 12, day |-> 31, slot |-> SlotsPerDay - 1]

\* the instants at the two ends of the three windows
WindowStamps(now) ==
    LET day0 == [now EXCEPT !.slot = 0]
        month0 == [now EXCEPT !.day = 1, !.slot = 0]
        year0 == [now EXCEPT !.month = 1, !.day = 1, !.slot = 0]
    IN  {now, NextInstant(now),
         day0, PreviousInstant(day0),
         month0, PreviousInstant(month0),
         year0, PreviousInstant(year0)}

\* rows dated around the ends of the windows, of both types, and a row of
\* another user
RowsByDate(now) ==
    {[user_id |-> User, amount |-> 10, type |-> ty,
      transaction_date |-> d, category_id |-> Null] :
        ty \in ViewTypes, d \in WindowStamps(now)}
    \cup {[user_id |-> OtherUser, amount |-> 10, type |-> "expense",
           transaction_date |-> now, category_id |-> Null]}

CalculatorIdle ==
    /\ budgets = <<>>
    /\ transactions = <<>>
    /\ month = 1
    /\ year = MinYear
    /\ summary = NullSummary
    /\ previous = NullSummary
    /\ recommendation = Null

(* SpecInsights: the categories and the amounts of the rows vary *)

InitInsights ==
    /\ CalculatorIdle
    /\ clock \in InsightsClocks
    /\ pc = "input"
    /\ InsightsIdle
    /\ BudgetIdle
    /\ RestIdle

NextInsights ==
    \/ \E t \in RowsByCategory(clock) : InsertTransaction(t)
    \/ fetchInsightsData
    \/ \E v \in ViewTypes : SetViewType(v)
    \/ \E tf \in Timeframes : SetTimeframe(tf)

SpecInsights == InitInsights /\ [][NextInsights]_vars

(* SpecWindow: the dates, the types and the owners of the rows vary *)

NextWindow ==
    \/ \E t \in RowsByDate(clock) : InsertTransaction(t)
    \/ fetchInsightsData
    \/ \E v \in ViewTypes : SetViewType(v)
    \/ \E tf \in Timeframes : SetTimeframe(tf)

SpecWindow == InitInsights /\ [][NextWindow]_vars

----------------------------------------------------------------------------
(* Insights.tsx: the effect, its subscription and the fetches under way *)

restVars == <<budgets, transactions, month, year, clock, summary, pc, previous,
              recommendation, budgetTable, budgetPage, adminVars, maintVars>>

Subscription_FirstRender(id, v, tf) ==
    [id |-> id, viewType |-> "expense", timeframe |-> "monthly"]

\* supabase.channel('insights-updates')...subscribe(): the callbacks call the
\* fetchInsightsData of the render the effect belongs to
Subscription(id, v, tf) == [id |-> id, viewType |-> v, timeframe |-> tf]

\* fetchInsightsData() up to its await: the query is sent
StartFetch(v, tf, cause) ==
    /\ started' = started + 1
    /\ requests' = requests \cup
           {[seq |-> started + 1, viewType |-> v, timeframe |-> tf, cause |-> cause]}

\* the effect with its dependencies [user, viewType, timeframe]: fetch, and
\* subscribe anew
RunEffect(v, tf, cause) ==
    /\ StartFetch(v, tf, cause)
    /\ channel' = Subscription(started + 1, v, tf)

\* the page is mounted with a signed-in user
Mount ==
    /\ ~mounted
    /\ started = 0
    /\ mounted' = TRUE
    /\ RunEffect(viewType, timeframe, "mount")
    /\ UNCHANGED <<insightsVars, events, shown, dropped, restVars>>

\* the page is unmounted: the cleanup removes the channel
Unmount ==
    /\ mounted
    /\ mounted' = FALSE
    /\ channel' = NoChannel
    /\ UNCHANGED <<insightsVars, requests, events, started, shown, dropped, restVars>>

\* setViewType(v): render, cleanup of the previous effect, effect
ChooseViewType(v) ==
    /\ mounted
    /\ v # viewType
    /\ started < MaxFetches
    /\ viewType' = v
    /\ RunEffect(v, timeframe, "selection")
    /\ UNCHANGED <<txTable, timeframe, fetched, chartData, totalAmount>>
    /\ UNCHANGED <<mounted, events, shown, dropped, restVars>>

\* setTimeframe(period): render, cleanup of the previous effect, effect
ChooseTimeframe(tf) ==
    /\ mounted
    /\ tf # timeframe
    /\ started < MaxFetches
    /\ timeframe' = tf
    /\ RunEffect(viewType, tf, "selection")
    /\ UNCHANGED <<txTable, viewType, fetched, chartData, totalAmount>>
    /\ UNCHANGED <<mounted, events, shown, dropped, restVars>>

\* postgres_changes on transactions and on categories, both with filter
\* user_id=eq.<user> and the same callback: what a change of a row of owner
\* sends to the subscription there is
Published(owner) ==
    IF channel.id # 0 /\ owner = User
    THEN Append(events, [sub |-> channel.id])
    ELSE events

\* a row is inserted into public.transactions
ChangeTransactions(t) ==
    /\ BagCardinality(txTable) < MaxRows
    /\ ~BagIn(t, txTable)
    /\ Len(events) < MaxEvents
    /\ txTable' = txTable (+) SetToBag({t})
    /\ events' = Published(t.user_id)
    /\ UNCHANGED <<viewType, timeframe, fetched, chartData, totalAmount>>
    /\ UNCHANGED <<mounted, channel, requests, started, shown, dropped, restVars>>

\* a category of the user is updated, name, color and icon staying
ChangeCategories ==
    /\ channel.id # 0
    /\ Len(events) < MaxEvents
    /\ events' = Published(User)
    /\ UNCHANGED <<insightsVars, mounted, channel, requests, started, shown, dropped, restVars>>

\* a notification arrives: the callback of the subscription it was sent
\* to runs, if that subscription is still there
Notified ==
    /\ events # <<>>
    /\ events' = Tail(events)
    /\ IF mounted /\ Head(events).sub = channel.id
       THEN /\ started < MaxFetches
            /\ StartFetch(channel.viewType, channel.timeframe, "notification")
            /\ UNCHANGED dropped
       ELSE /\ dropped' = TRUE
            /\ UNCHANGED <<requests, started>>
    /\ UNCHANGED <<insightsVars, mounted, channel, shown, restVars>>

\* the response to a fetch arrives: the rest of fetchInsightsData
Respond(r) ==
    /\ r \in requests
    /\ requests' = requests \ {r}
    /\ IF mounted
       THEN /\ \E rows \in BagSeqs(QueryRows(txTable, r.viewType, r.timeframe, clock)) :
                 /\ fetched' = rows
                 /\ chartData' = ChartDataOf(rows)
                 /\ totalAmount' = TotalOf(rows)
            /\ shown' = r
       ELSE UNCHANGED <<fetched, chartData, totalAmount, shown>>
    /\ UNCHANGED <<txTable, viewType, timeframe>>
    /\ UNCHANGED <<mounted, channel, events, started, dropped, restVars>>

\* rows inserted while the page is open: one of the user, one of somebody else
RowsWhileOpen(now) ==
    {[user_id |-> User, amount |-> 10, type |-> "expense",
      transaction_date |-> now, category_id |-> "c1"],
     [user_id |-> OtherUser, amount |-> 30, type |-> "expense",
      transaction_date |-> now, category_id |-> Null]}

(* SpecAsync: fetches and notifications of the Insights page under way *)

InitAsync ==
    /\ CalculatorIdle
    /\ clock = Stamp(MinYear + 1, 3, 15, SlotsPerDay - 1)
    /\ pc = "input"
    /\ InsightsIdle
    /\ BudgetIdle
    /\ RestIdle

NextAsync ==
    \/ Mount
    \/ Unmount
    \/ \E v \in ViewTypes : ChooseViewType(v)
    \/ \E tf \in Timeframes : ChooseTimeframe(tf)
    \/ \E t \in RowsWhileOpen(clock) : ChangeTransactions(t)
    \/ ChangeCategories
    \/ Notified
    \/ \E r \in requests : Respond(r)

SpecAsync == InitAsync /\ [][NextAsync]_vars

----------------------------------------------------------------------------
(* useAdminAuth.tsx: signIn, incrementFailedAttempts, signOut, verifySession,
   checkAdminSession.  Time is counted in lock periods of 30 minutes; it
   advances between calls, a call taking no time on this scale.  The
   statements sent to admin_users and admin_sessions are taken to be applied
   by the database. *)

adminRest == <<budgets, transactions, month, year, clock, summary, pc, previous,
               recommendation, budgetTable, budgetPage, insightsVars, asyncVars,
               maintVars>>

LockSpan == 1          \* 30 * 60 * 1000 ms
SessionSpan == 2       \* 60 * 60 * 1000 ms
LockThreshold == 3     \* attempts >= 3

Emails == {"admin", "nobody"}
Passwords == {"secret", "wrong"}
TotpCodes == {<<>>, <<1, 2, 3, 4, 5, 6>>, <<1, 2, 3, 4, 5>>}

verifyPassword(password, hash) == password = hash

verify2FA(code) == Len(code) = 6

\* .eq('email', email).eq('is_active', true).single() has a row
AdminFound(email) == adminRow.email = email /\ adminRow.is_active

IsLocked_Never(row, now) == FALSE

\* adminData.locked_until && new Date(adminData.locked_until) > new Date()
IsLocked(row, now) == row.locked_until # NullTime /\ row.locked_until > now

LockUntil_AfterThreshold(attempts, now) ==
    IF attempts > LockThreshold THEN now + LockSpan ELSE NullTime

\* attempts >= 3 ? new Date(Date.now() + 30 * 60 * 1000) : null
LockUntil(attempts, now) ==
    IF attempts >= LockThreshold THEN now + LockSpan ELSE NullTime

SessionRejected_ExpiryOnly(row, now) == row.expires_at < now

\* !data.is_active || new Date(data.expires_at) < new Date()
SessionRejected(row, now) == ~row.is_active \/ row.expires_at < now

\* the rows of admin_sessions with this token
RowsOfToken(t) == {i \in 1..Len(sessions) : sessions[i].session_token = t}

\* .update({ is_active: false }).eq('session_token', t)
Deactivated(t) ==
    [i \in 1..Len(sessions) |->
        IF sessions[i].session_token = t
        THEN [sessions[i] EXCEPT !.is_active = FALSE]
        ELSE sessions[i]]

Returned(success, error, requires2fa) ==
    [returned |-> TRUE, success |-> success, error |-> error, requires2fa |-> requires2fa]

FreeIds(limit) == {i \in 1..limit : \A p \in procs : p.id # i}

NewProc(limit, at) ==
    [id |-> CHOOSE i \in FreeIds(limit) : \A j \in FreeIds(limit) : i <= j,
     pc |-> at, attempts |-> 0, lockUntil |-> NullTime, sessionToken |-> NoToken]

\* signIn(email, password, totpCode) up to its return or to the first
\* statement it sends that writes; limit is the number of calls that may be
\* under way at once
signIn(email, password, totpCode, limit) ==
    /\ FreeIds(limit) # {}
    /\ verified' = NotVerified
    /\ UNCHANGED <<adminRow, sessions, token, adminUser, dateNow, adminRest>>
    /\ IF ~AdminFound(email)
       THEN /\ result' = Returned(FALSE, "Invalid credentials", FALSE)
            /\ UNCHANGED <<procs, failures>>
       ELSE IF IsLocked(adminRow, dateNow)
       THEN /\ result' = Returned(FALSE, "Account is temporarily locked", FALSE)
            /\ UNCHANGED <<procs, failures>>
       ELSE IF ~verifyPassword(password, adminRow.password_hash)
       THEN /\ failures < MaxFailures
            /\ failures' = failures + 1
            /\ procs' = procs \cup {NewProc(limit, "read")}
            /\ result' = NoResult
       ELSE IF adminRow.requires_2fa /\ totpCode = <<>>
       THEN /\ result' = Returned(FALSE, Null, TRUE)
            /\ UNCHANGED <<procs, failures>>
       ELSE IF adminRow.requires_2fa /\ ~verify2FA(totpCode)
       THEN /\ result' = Returned(FALSE, "Invalid 2FA code", FALSE)
            /\ UNCHANGED <<procs, failures>>
       ELSE /\ Len(sessions) + Cardinality({p \in procs : p.pc = "insert"}) < MaxSessions
            /\ procs' = procs \cup {NewProc(limit, "insert")}
            /\ result' = NoResult
            /\ UNCHANGED failures

\* incrementFailedAttempts: the SELECT of failed_login_attempts is answered
IncrementRead(p) ==
    /\ p \in procs
    /\ p.pc = "read"
    /\ procs' = (procs \ {p}) \cup
           {[p EXCEPT !.pc = "write",
                      !.attempts = adminRow.failed_login_attempts + 1,
                      !.lockUntil = LockUntil(adminRow.failed_login_attempts + 1, dateNow)]}
    /\ result' = NoResult
    /\ verified' = NotVerified
    /\ UNCHANGED <<adminRow, sessions, token, adminUser, dateNow, failures, adminRest>>

\* incrementFailedAttempts: the UPDATE is applied (locked_until: undefined
\* leaves the column as it is), and signIn returns
IncrementWrite(p) ==
    /\ p \in procs
    /\ p.pc = "write"
    /\ adminRow' = [adminRow EXCEPT
           !.failed_login_attempts = p.attempts,
           !.locked_until = IF p.lockUntil = NullTime THEN @ ELSE p.lockUntil]
    /\ procs' = procs \ {p}
    /\ result' = Returned(FALSE, "Invalid credentials", FALSE)
    /\ verified' = NotVerified
    /\ UNCHANGED <<sessions, token, adminUser, dateNow, failures, adminRest>>

\* signIn: the session row is inserted, expiring one hour from now
InsertSession(p) ==
    /\ p \in procs
    /\ p.pc = "insert"
    /\ sessions' = Append(sessions,
           [session_token |-> Len(sessions) + 1, admin_user_id |-> adminRow.id,
            expires_at |-> dateNow + SessionSpan, is_active |-> TRUE])
    /\ procs' = (procs \ {p}) \cup
           {[p EXCEPT !.pc = "reset", !.sessionToken = Len(sessions) + 1]}
    /\ result' = NoResult
    /\ verified' = NotVerified
    /\ UNCHANGED <<adminRow, token, adminUser, dateNow, failures, adminRest>>

\* signIn: failed attempts and lock are reset, the token is stored, adminUser
\* is set, and signIn returns
ResetAttempts(p) ==
    /\ p \in procs
    /\ p.pc = "reset"
    /\ adminRow' = [adminRow EXCEPT !.failed_login_attempts = 0,
                                   !.locked_until = NullTime,
                                   !.last_login = dateNow]
    /\ token' = p.sessionToken
    /\ adminUser' = [id |-> adminRow.id]
    /\ failures' = 0
    /\ procs' = procs \ {p}
    /\ result' = Returned(TRUE, Null, FALSE)
    /\ verified' = NotVerified
    /\ UNCHANGED <<sessions, dateNow, adminRest>>

\* what signOut leaves in admin_sessions
AfterSignOut ==
    IF token # NoToken /\ adminUser # NoAdmin THEN Deactivated(token) ELSE sessions

signOut ==
    /\ procs = {}
    /\ sessions' = AfterSignOut
    /\ token' = NoToken
    /\ adminUser' = NoAdmin
    /\ result' = NoResult
    /\ verified' = NotVerified
    /\ UNCHANGED <<adminRow, dateNow, procs, failures, adminRest>>

verifySession ==
    /\ procs = {}
    /\ result' = NoResult
    /\ UNCHANGED <<adminRow, dateNow, procs, failures, adminRest>>
    /\ IF token = NoToken
       THEN /\ verified' = [returned |-> TRUE, value |-> FALSE]
            /\ UNCHANGED <<sessions, token, adminUser>>
       ELSE IF \/ RowsOfToken(token) = {}
               \/ \E i \in RowsOfToken(token) : SessionRejected(sessions[i], dateNow)
       THEN /\ sessions' = AfterSignOut
            /\ token' = NoToken
            /\ adminUser' = NoAdmin
            /\ verified' = [returned |-> TRUE, value |-> FALSE]
       ELSE /\ verified' = [returned |-> TRUE, value |-> TRUE]
            /\ UNCHANGED <<sessions, token, adminUser>>

\* the page is loaded anew: adminUser starts as null and checkAdminSession
\* runs, selecting by token and is_active = true
checkAdminSession ==
    /\ procs = {}
    /\ result' = NoResult
    /\ verified' = NotVerified
    /\ UNCHANGED <<adminRow, sessions, dateNow, procs, failures, adminRest>>
    /\ IF token = NoToken
       THEN /\ adminUser' = NoAdmin
            /\ UNCHANGED token
       ELSE IF \E i \in RowsOfToken(token) :
                   sessions[i].is_active /\ ~(sessions[i].expires_at < dateNow)
       THEN /\ adminUser' = [id |-> adminRow.id]
            /\ UNCHANGED token
       ELSE /\ token' = NoToken
            /\ adminUser' = NoAdmin

\* somebody puts a token issued earlier back into localStorage
RestoreToken(t) ==
    /\ procs = {}
    /\ t \in 1..Len(sessions)
    /\ t # token
    /\ token' = t
    /\ result' = NoResult
    /\ verified' = NotVerified
    /\ UNCHANGED <<adminRow, sessions, adminUser, dateNow, procs, failures, adminRest>>

\* a lock period passes
Later ==
    /\ procs = {}
    /\ dateNow < MaxTime
    /\ dateNow' = dateNow + 1
    /\ result' = NoResult
    /\ verified' = NotVerified
    /\ UNCHANGED <<adminRow, sessions, token, adminUser, procs, failures, adminRest>>

\* the accounts: active or not, with or without 2FA
AdminRows ==
    {[AdminRow0 EXCEPT !.is_active = a, !.requires_2fa = f] : a, f \in BOOLEAN}

InitAdmin ==
    /\ CalculatorIdle
    /\ clock = Stamp(MinYear + 1, 3, 15, SlotsPerDay - 1)
    /\ pc = "input"
    /\ InsightsIdle
    /\ BudgetIdle
    /\ AsyncIdle
    /\ MaintenanceIdle
    /\ adminRow \in AdminRows
    /\ sessions = <<>>
    /\ token = NoToken
    /\ adminUser = NoAdmin
    /\ dateNow = 0
    /\ procs = {}
    /\ failures = 0
    /\ result = NoResult
    /\ verified = NotVerified

StepsOfSignIn ==
    \/ \E p \in procs : IncrementRead(p)
    \/ \E p \in procs : IncrementWrite(p)
    \/ \E p \in procs : InsertSession(p)
    \/ \E p \in procs : ResetAttempts(p)

(* SpecAdmin: one call at a time *)

NextAdmin ==
    \/ \E e \in Emails, pw \in Passwords, code \in TotpCodes : signIn(e, pw, code, 1)
    \/ StepsOfSignIn
    \/ signOut
    \/ verifySession
    \/ checkAdminSession
    \/ \E t \in 1..MaxSessions : RestoreToken(t)
    \/ Later

SpecAdmin == InitAdmin /\ [][NextAdmin]_vars

(* SpecRace: signIn calls under way at the same time *)

NextRace ==
    \/ \E e \in Emails, pw \in Passwords, code \in TotpCodes :
           signIn(e, pw, code, MaxConcurrent)
    \/ StepsOfSignIn
    \/ Later

SpecRace == InitAdmin /\ [][NextRace]_vars

----------------------------------------------------------------------------
(* MaintenanceWrapper.tsx: the effect, checkMaintenanceMode, the
   'maintenance-mode' subscription and what is rendered *)

maintRest == <<budgets, transactions, month, year, clock, summary, pc, previous,
               recommendation, budgetTable, budgetPage, insightsVars, asyncVars>>

\* values of system_settings.value for key 'maintenance_mode'
SettingValues == {"true", "false", "TRUE"}

Render_IgnoresAdmin ==
    IF loading THEN "spinner"
    ELSE IF isMaintenanceMode THEN "maintenance"
    ELSE "children"

\* what MaintenanceWrapper returns
Render ==
    IF loading THEN "spinner"
    ELSE IF isMaintenanceMode /\ adminUser = NoAdmin THEN "maintenance"
    ELSE "children"

\* the effect on mount: checkMaintenanceMode() sends its query, the channel
\* is subscribed
MountWrapper ==
    /\ check.pc = "idle"
    /\ check' = [pc |-> "sent", value |-> Null]
    /\ UNCHANGED <<setting, isMaintenanceMode, loading, updates, observed>>
    /\ UNCHANGED <<adminVars, maintRest>>

\* the database runs the query of checkMaintenanceMode
CheckReads ==
    /\ check.pc = "sent"
    /\ check' = [pc |-> "read", value |-> setting]
    /\ UNCHANGED <<setting, isMaintenanceMode, loading, updates, observed>>
    /\ UNCHANGED <<adminVars, maintRest>>

\* the answer arrives: setIsMaintenanceMode(data.value === 'true'), and
\* setLoading(false)
CheckAnswered ==
    /\ check.pc = "read"
    /\ check' = [check EXCEPT !.pc = "done"]
    /\ isMaintenanceMode' = (check.value = "true")
    /\ observed' = check.value
    /\ loading' = FALSE
    /\ UNCHANGED <<setting, updates>>
    /\ UNCHANGED <<adminVars, maintRest>>

\* the query fails: setIsMaintenanceMode(false), and setLoading(false)
CheckFails ==
    /\ check.pc \in {"sent", "read"}
    /\ check' = [pc |-> "done", value |-> Null]
    /\ isMaintenanceMode' = FALSE
    /\ observed' = "error"
    /\ loading' = FALSE
    /\ UNCHANGED <<setting, updates>>
    /\ UNCHANGED <<adminVars, maintRest>>

\* UPDATE system_settings SET value = v WHERE key = 'maintenance_mode'
UpdateSetting(v) ==
    /\ Len(updates) < MaxUpdates
    /\ setting' = v
    /\ updates' = IF check.pc = "idle" THEN updates ELSE Append(updates, v)
    /\ UNCHANGED <<isMaintenanceMode, loading, check, observed>>
    /\ UNCHANGED <<adminVars, maintRest>>

\* the notification arrives: setIsMaintenanceMode(payload.new.value === 'true')
UpdateNotified ==
    /\ updates # <<>>
    /\ updates' = Tail(updates)
    /\ isMaintenanceMode' = (Head(updates) = "true")
    /\ observed' = Head(updates)
    /\ UNCHANGED <<setting, loading, check>>
    /\ UNCHANGED <<adminVars, maintRest>>

(* SpecMaintenance: the wrapper, the setting, and an admin who signs in and out *)

InitMaintenance ==
    /\ InitAdmin
    /\ adminRow = AdminRow0

NextMaintenance ==
    \/ MountWrapper
    \/ CheckReads
    \/ CheckAnswered
    \/ CheckFails
    \/ \E v \in SettingValues : UpdateSetting(v)
    \/ UpdateNotified
    \/ signIn("admin", "secret", <<1, 2, 3, 4, 5, 6>>, 1)
    \/ \E p \in procs : InsertSession(p)
    \/ \E p \in procs : ResetAttempts(p)
    \/ signOut

SpecMaintenance == InitMaintenance /\ [][NextMaintenance]_vars

----------------------------------------------------------------------------
(* Budget.tsx: handleAddBudget, fetchData *)

\* UNIQUE(user_id, month, year, category_id)
BudgetKey(b) == <<b.user_id, b.month, b.year, b.category_id>>

\* whether the constraint rejects the row: two rows conflict when all four
\* columns are equal, and a NULL category_id is equal to nothing
ViolatesUnique(table, row) ==
    /\ row.category_id # Null
    /\ \E i \in DOMAIN table : BudgetKey(table[i]) = BudgetKey(row)

\* parseFloat(newBudgetAmount)
ParseFloat(text) ==
    CASE text = "50" -> 50
      [] text = "80" -> 80

\* .eq('user_id', user?.id).eq('month', currentMonth).eq('year', currentYear)
CurrentBudgets(table, now) ==
    SelectSeq(table, LAMBDA b :
        b.user_id = User /\ b.month = now.month /\ b.year = now.year)

\* the orders a query without ORDER BY may return the rows of a table in
Orderings(rows) == BagSeqs(SetToBag({rows[i] : i \in DOMAIN rows}))

\* transactionData of calculateSummary: the expenses of the user dated from
\* startOfMonth to endOfMonth
CurrentExpenses(tx, now) ==
    LET hit == {t \in BagToSet(tx) :
                   /\ t.user_id = User
                   /\ t.type = "expense"
                   /\ ParseDate(t.transaction_date) >= StartOfMonth(now.month, now.year)
                   /\ ParseDate(t.transaction_date) <= EndOfMonth(now.month, now.year)}
    IN  [t \in hit |-> CopiesIn(t, tx)]

\* transactionData?.reduce((sum, t) => sum + Number(t.amount), 0) || 0
RECURSIVE SumOfBag(_)
SumOfBag(B) ==
    IF BagToSet(B) = {} THEN 0
    ELSE LET t == CHOOSE x \in BagToSet(B) : TRUE
         IN  t.amount * CopiesIn(t, B) + SumOfBag([x \in BagToSet(B) \ {t} |-> B[x]])

\* calculateSummary
calculateSummary(table, tx, now) ==
    LET totalBudget == SumAmount(CurrentBudgets(table, now))
        totalSpent == SumOfBag(CurrentExpenses(tx, now))
        remaining == totalBudget - totalSpent
        daysLeft == DaysLeft(now.month, now.year, now)
    IN  [totalBudget |-> totalBudget,
         totalSpent |-> totalSpent,
         remaining |-> remaining,
         dailyAllowance |-> IF daysLeft > 0 THEN Frac(remaining, daysLeft) ELSE Frac(0, 1),
         daysLeft |-> daysLeft,
         percentage |-> Percentage(totalSpent, totalBudget)]

\* fetchData on the table: setBudgets and setSummary
FetchDataFrom(table, toast) ==
    \E rows \in Orderings(CurrentBudgets(table, clock)) :
        budgetPage' = [budgets |-> rows,
                       summary |-> calculateSummary(table, txTable, clock),
                       toast |-> toast]

\* useEffect on mount
fetchData ==
    /\ FetchDataFrom(budgetTable, budgetPage.toast)
    /\ UNCHANGED <<budgetTable, insightsVars>>
    /\ UNCHANGED <<budgets, transactions, month, year, clock, summary, pc>>
    /\ UNCHANGED <<previous, recommendation, asyncVars, adminVars, maintVars>>

\* the row handleAddBudget sends; id is DEFAULT gen_random_uuid()
NewBudgetRow(newBudgetAmount, selectedCategory) ==
    [id |-> Len(budgetTable) + 1,
     user_id |-> User,
     amount |-> ParseFloat(newBudgetAmount),
     category_id |-> IF selectedCategory = "total" THEN Null ELSE selectedCategory,
     month |-> clock.month,
     year |-> clock.year]

\* 'Save Budget'. The upsert names no onConflict columns, so it resolves
\* conflicts on the primary key id only, and the row it sends has a new id:
\* it inserts, or fails on the UNIQUE constraint.
handleAddBudget(newBudgetAmount, selectedCategory) ==
    /\ Len(budgetTable) < MaxSaved
    /\ IF newBudgetAmount = "" \/ selectedCategory = ""
       THEN /\ budgetPage' = [budgetPage EXCEPT !.toast = "Please enter an amount and select a category"]
            /\ UNCHANGED budgetTable
       ELSE IF ViolatesUnique(budgetTable, NewBudgetRow(newBudgetAmount, selectedCategory))
       THEN /\ budgetPage' = [budgetPage EXCEPT !.toast = "duplicate key value violates unique constraint"]
            /\ UNCHANGED budgetTable
       ELSE /\ budgetTable' = Append(budgetTable, NewBudgetRow(newBudgetAmount, selectedCategory))
            /\ FetchDataFrom(budgetTable', "Budget saved successfully")
    /\ UNCHANGED insightsVars
    /\ UNCHANGED <<budgets, transactions, month, year, clock, summary, pc>>
    /\ UNCHANGED <<previous, recommendation, asyncVars, adminVars, maintVars>>

\* a total budget of somebody else, saved for the same months
OtherUsersBudget(now) ==
    [id |-> 1, user_id |-> OtherUser, amount |-> 50, category_id |-> Null,
     month |-> now.month, year |-> now.year]

\* an expense of the user, dated now
AnExpense(now) ==
    [user_id |-> User, amount |-> 30, type |-> "expense",
     transaction_date |-> now, category_id |-> "c1"]

(* SpecBudget: budgets are saved on the Budget page *)

InitBudget ==
    /\ CalculatorIdle
    /\ clock \in ClockSamples
    /\ pc = "input"
    /\ txTable \in {EmptyBag, SetToBag({AnExpense(clock)})}
    /\ viewType = "expense"
    /\ timeframe = "monthly"
    /\ fetched = <<>>
    /\ chartData = <<>>
    /\ totalAmount = Zero
    /\ budgetTable \in {<<>>, <<OtherUsersBudget(clock)>>}
    /\ budgetPage = InitialBudgetPage
    /\ RestIdle

NextBudget ==
    \/ \E a \in {"", "50", "80"}, c \in {"", "total", "c1"} : handleAddBudget(a, c)
    \/ fetchData

SpecBudget == InitBudget /\ [][NextBudget]_vars

----------------------------------------------------------------------------
(* Properties *)

Done == pc = "done"

\* the sum of the amounts of the rows at the indices I
RECURSIVE SumAt(_, _)
SumAt(rows, I) ==
    IF I = {} THEN 0
    ELSE LET i == CHOOSE j \in I : TRUE
         IN  rows[i].amount + SumAt(rows, I \ {i})

\* the number of days of calendar month m of year y
CalendarDays(m, y) ==
    CASE m \in {4, 6, 9, 11} -> 30
      [] m = 2 -> IF y % 400 = 0 \/ (y % 4 = 0 /\ y % 100 # 0) THEN 29 ELSE 28
      [] OTHER -> 31

TodayInTarget == clock.year = year /\ clock.month = month
TodayAfterTarget == clock.year > year \/ (clock.year = year /\ clock.month > month)
TodayBeforeTarget == clock.year < year \/ (clock.year = year /\ clock.month < month)

\* C1: the status of every returned summary is 'danger' iff percentage > 100,
\* 'warning' iff 80 < percentage <= 100, and 'safe' otherwise.
C1_StatusThresholds ==
    Done =>
        LET p == summary.percentage
        IN  /\ summary.status \in {"safe", "warning", "danger"}
            /\ summary.status = "danger" <=> p.num > 100 * p.den
            /\ summary.status = "warning" <=> (p.num > 80 * p.den /\ p.num <= 100 * p.den)
            /\ summary.status = "safe" <=> p.num <= 80 * p.den

\* a summary with percentage exactly 80, which is safe
C1_Witness ==
    Done /\ summary.percentage = [num |-> 80, den |-> 1] /\ summary.status = "safe"

\* C2: remaining = totalBudget - totalSpent exactly in every returned summary,
\* negative results and the zero-budget / zero-spending cases included.
C2_RemainingExact ==
    Done =>
        /\ summary.remaining = summary.totalBudget - summary.totalSpent
        /\ summary.totalBudget = 0 => summary.remaining = 0 - summary.totalSpent
        /\ summary.totalSpent = 0 => summary.remaining = summary.totalBudget

\* a budget that is set and overspent: remaining is negative
C2_Witness ==
    Done /\ summary.totalBudget > 0 /\ summary.totalSpent > summary.totalBudget
         /\ summary.remaining < 0

\* C3: with non-negative amounts dailyAllowance >= 0, also when remaining < 0.
C3_AllowanceNonNegative ==
    Done => summary.dailyAllowance.num >= 0 /\ summary.dailyAllowance.den > 0

\* spending above the budget with days left in the month
C3_Witness ==
    Done /\ summary.remaining < 0 /\ summary.daysLeft > 0
         /\ summary.dailyAllowance.num = 0

\* C4: dailyAllowance = max(0, remaining / daysLeft) when daysLeft > 0, and 0
\* when daysLeft = 0 whatever remaining is.
C4_AllowanceFormula ==
    Done =>
        LET a == summary.dailyAllowance
        IN  /\ (summary.daysLeft > 0 /\ summary.remaining >= 0) =>
                a.num * summary.daysLeft = summary.remaining * a.den
            /\ (summary.daysLeft > 0 /\ summary.remaining < 0) => a.num = 0
            /\ summary.daysLeft = 0 => a.num = 0

\* no day left and money left
C4_Witness ==
    Done /\ summary.daysLeft = 0 /\ summary.remaining > 0
         /\ summary.dailyAllowance.num = 0

\* C5: percentage = (totalSpent / totalBudget) * 100 when totalBudget > 0 and 0
\* when totalBudget = 0; so no budget means 'safe', and no spending means 0.
C5_PercentageFormula ==
    Done =>
        LET p == summary.percentage
        IN  /\ summary.totalBudget > 0 =>
                p.num * summary.totalBudget = 100 * summary.totalSpent * p.den
            /\ summary.totalBudget = 0 => (p.num = 0 /\ summary.status = "safe")
            /\ summary.totalSpent = 0 => p.num = 0

\* spending with no budget set
C5_Witness ==
    Done /\ summary.totalBudget = 0 /\ summary.totalSpent > 0
         /\ summary.status = "safe"

\* C6: totalSpent is the sum of the amounts of exactly the expenses dated on a
\* day of the target month, the first and the last day included at any time
\* of day; income and other months never count.
C6_SpentIsMonthExpenses ==
    Done =>
        summary.totalSpent =
            SumAt(transactions,
                  {i \in DOMAIN transactions :
                      /\ transactions[i].type = "expense"
                      /\ transactions[i].transaction_date.year = year
                      /\ transactions[i].transaction_date.month = month})

\* C7: totalBudget is the sum of the amount of every budget row passed in,
\* total rows and per-category rows alike, repeated rows included; 0 for
\* an empty list.
C7_BudgetIsSumOfAllRows ==
    Done =>
        /\ summary.totalBudget = SumAt(budgets, DOMAIN budgets)
        /\ budgets = <<>> => summary.totalBudget = 0

\* a total row and a per-category row passed together
C7_Witness ==
    /\ Done
    /\ \E i, j \in DOMAIN budgets :
        budgets[i].category_id = Null /\ budgets[j].category_id # Null
    /\ summary.totalBudget = budgets[1].amount + budgets[2].amount

\* C8: when today falls in the target month, daysLeft = L - today.day + 1
\* with L the number of days of the month: between 1 and L.
C8_DaysLeftInTarget ==
    (Done /\ TodayInTarget) =>
        /\ summary.daysLeft = CalendarDays(month, year) - clock.day + 1
        /\ summary.daysLeft >= 1
        /\ summary.daysLeft <= CalendarDays(month, year)

\* the last day of a leap February: one day left
C8_Witness ==
    Done /\ TodayInTarget /\ month = 2 /\ clock.day = 29 /\ summary.daysLeft = 1

\* C9: when today is after the target period, daysLeft is 0 and so is
\* dailyAllowance.
C9_NoDaysLeftAfterTarget ==
    (Done /\ TodayAfterTarget) =>
        summary.daysLeft = 0 /\ summary.dailyAllowance.num = 0

\* C10: when today is before the target period, daysLeft is the full number
\* of days of the target month.
C10_FullMonthBeforeTarget ==
    (Done /\ TodayBeforeTarget) => summary.daysLeft = CalendarDays(month, year)


\* C11: two calls with identical arguments (budgets, transactions, month,
\* year) return identical summaries in every field.
C11_SameArgumentsSameSummary ==
    pc = "again" => summary = previous


\* C12: the message is picked by priority: status danger -> over budget, with
\* |remaining|; else warning -> alert, with remaining and daysLeft; else
\* daysLeft > 0 -> daily allowance; else the end-of-period message.
C12_RecommendationFollowsStatus ==
    Done =>
        LET r == recommendation
            a == summary.dailyAllowance
        IN  /\ summary.status = "danger" =>
                (r.kind = "over" /\ r.amount >= 0
                    /\ r.amount \in {summary.remaining, 0 - summary.remaining})
            /\ summary.status = "warning" =>
                (r.kind = "alert" /\ r.amount = summary.remaining
                    /\ r.days = summary.daysLeft)
            /\ (summary.status = "safe" /\ summary.daysLeft > 0) =>
                (r.kind = "daily" /\ r.days = summary.daysLeft
                    /\ 2 * (r.amount * a.den - a.num) <= a.den
                    /\ 2 * (a.num - r.amount * a.den) <= a.den)
            /\ (summary.status = "safe" /\ summary.daysLeft = 0) => r.kind = "ended"

\* over budget with no day left: the over-budget message wins
C12_Witness ==
    Done /\ summary.status = "danger" /\ summary.daysLeft = 0
         /\ recommendation.kind = "over"

\* C13: the call always returns a complete summary of finite numbers; with no
\* budgets, no transactions, or no days left the fields concerned are 0 and
\* the status is 'safe'.
C13_AlwaysCompleteSummary ==
    Done =>
        /\ DOMAIN summary = {"totalBudget", "totalSpent", "remaining",
                             "dailyAllowance", "daysLeft", "percentage", "status"}
        /\ summary.dailyAllowance.den > 0
        /\ summary.percentage.den > 0
        /\ budgets = <<>> =>
            (summary.totalBudget = 0 /\ summary.percentage.num = 0
                /\ summary.status = "safe")
        /\ transactions = <<>> =>
            (summary.totalSpent = 0 /\ summary.percentage.num = 0
                /\ summary.status = "safe")
        /\ summary.daysLeft = 0 => summary.dailyAllowance.num = 0

\* nothing passed in and no day left
C13_Witness ==
    Done /\ budgets = <<>> /\ transactions = <<>> /\ summary.daysLeft = 0
         /\ summary.status = "safe" /\ summary.remaining = 0

(* Insights *)

Fetched == pc = "done"

\* the category totals added up as numbers, in the order of the list
RECURSIVE SumValue(_)
SumValue(data) ==
    IF data = <<>> THEN Zero
    ELSE Plus(SumValue(SubSeq(data, 1, Len(data) - 1)), data[Len(data)].value)

\* the category totals added up without rounding
RECURSIVE ExactSumValue(_)
ExactSumValue(data) ==
    IF data = <<>> THEN Zero
    ELSE ExactPlus(ExactSumValue(SubSeq(data, 1, Len(data) - 1)), data[Len(data)].value)

RECURSIVE BagOfSeq(_)
BagOfSeq(rows) ==
    IF rows = <<>> THEN EmptyBag
    ELSE BagOfSeq(SubSeq(rows, 1, Len(rows) - 1)) (+) SetToBag({rows[Len(rows)]})

\* the (category, total) pairs of a category list
Pairs(data) == {<<data[i].name, data[i].value>> : i \in DOMAIN data}

\* where a category is first encountered in the fetched rows
FirstEncounter(name) ==
    CHOOSE k \in DOMAIN fetched :
        /\ CategoryName(fetched[k]) = name
        /\ \A j \in 1..(k - 1) : CategoryName(fetched[j]) # name

\* C14: the category totals add up to the grand total, be it as numbers or
\* without rounding, and the grand total is the sum of the amounts of the
\* aggregated transactions.
C14_TotalsAddUp ==
    Fetched =>
        /\ SumValue(chartData) = totalAmount \/ ExactSumValue(chartData) = totalAmount
        /\ totalAmount = TotalOf(fetched)

\* C15: the category list is in descending order of total, and categories
\* with equal totals are in the order of their first transaction.
C15_SortedDescendingStable ==
    Fetched =>
        \A i, j \in DOMAIN chartData :
            i < j =>
                /\ ~Less(chartData[i].value, chartData[j].value)
                /\ chartData[i].value = chartData[j].value
                      => FirstEncounter(chartData[i].name) < FirstEncounter(chartData[j].name)

\* two categories tie, the first one only with its second transaction, which
\* comes after the transaction of the other
C15_Witness ==
    /\ Fetched
    /\ Len(fetched) = 3
    /\ Len(chartData) = 2
    /\ chartData[1].value = chartData[2].value
    /\ CategoryName(fetched[1]) = CategoryName(fetched[3])
    /\ CategoryName(fetched[1]) # CategoryName(fetched[2])

\* C16: transactions of two distinct categories are in two distinct groups,
\* and the 'Uncategorized' group holds the transactions without category.
C16_GroupsByCategoryId ==
    Fetched =>
        /\ Len(chartData) = Cardinality({fetched[i].category_id : i \in DOMAIN fetched})
        /\ \A i \in DOMAIN fetched :
              CategoryName(fetched[i]) = "Uncategorized" <=> fetched[i].category_id = Null

\* C17: with no matching transaction the list is empty, the total is 0 and
\* the page shows the empty state, computing no percentage.
C17_NothingMatches ==
    (Fetched /\ QueryRows(txTable, viewType, timeframe, clock) = EmptyBag) =>
        /\ chartData = <<>>
        /\ totalAmount = Zero
        /\ RenderInsights(chartData, totalAmount) = [kind |-> "empty"]

\* the table has rows, none of the selected type
C17_Witness ==
    /\ Fetched
    /\ txTable # EmptyBag
    /\ fetched = <<>>
    /\ RenderInsights(chartData, totalAmount).kind = "empty"

\* C18: every order of the same transactions gives the same grand total and
\* the same set of (category, total) pairs.
C18_OrderIndependent ==
    Fetched =>
        \A rows \in BagSeqs(BagOfSeq(fetched)) :
            /\ TotalOf(rows) = totalAmount
            /\ Pairs(ChartDataOf(rows)) = Pairs(chartData)

\* (year, month, day, slot) of a is not after that of b
NotAfter(a, b) ==
    \/ a.year < b.year
    \/ a.year = b.year /\ a.month < b.month
    \/ a.year = b.year /\ a.month = b.month /\ a.day < b.day
    \/ a.year = b.year /\ a.month = b.month /\ a.day = b.day /\ a.slot <= b.slot

\* the window of the timeframe, in calendar terms
InWindow(d, tf, now) ==
    /\ NotAfter(d, now)
    /\ d.year = now.year
    /\ tf \in {"daily", "monthly"} => d.month = now.month
    /\ tf = "daily" => d.day = now.day

\* C19: the aggregated transactions are the rows of the user that have the
\* selected type and a date from the start of the window up to now.
C19_ExactlyTheWindow ==
    Fetched =>
        LET wanted == {t \in BagToSet(txTable) :
                          /\ t.user_id = User
                          /\ t.type = viewType
                          /\ InWindow(t.transaction_date, timeframe, clock)}
        IN  BagOfSeq(fetched) = [t \in wanted |-> CopiesIn(t, txTable)]

\* the year's first instant is in the yearly window, the instant before it
\* and a row of the other type are not
C19_Witness ==
    /\ Fetched
    /\ timeframe = "yearly"
    /\ clock.month > 1
    /\ Len(fetched) = 1
    /\ fetched[1].transaction_date = [clock EXCEPT !.month = 1, !.day = 1, !.slot = 0]
    /\ \E t \in BagToSet(txTable) : t.transaction_date.year < clock.year
    /\ \E t \in BagToSet(txTable) : t.type # viewType

(* Budget page *)

\* C20: storage holds at most one budget row for a user, a month, a year
\* and a category, the total budget (no category) included.
C20_OneRowPerKey ==
    \A i, j \in DOMAIN budgetTable :
        BudgetKey(budgetTable[i]) = BudgetKey(budgetTable[j]) => i = j

(* The same figures in other components *)

\* C27: the label the Budget page derives from the percentage is the label
\* of the status that calculateBudgetSummary gives that percentage.
C27_SameStatusLabel ==
    Done => getBudgetStatus(summary.percentage) = getBudgetStatusText(summary.status)

\* C28: with days left, BudgetProgressCard shows 'Over budget by' exactly
\* for status 'danger' and 'Spend up to' otherwise; with no day left it shows
\* 'Month ended'.
C28_CardMessageFollowsStatus ==
    Done =>
        /\ summary.daysLeft > 0 =>
              /\ StatusMessage(summary).kind = "Over budget by" <=> summary.status = "danger"
              /\ StatusMessage(summary).kind = "Spend up to" <=> summary.status # "danger"
        /\ summary.daysLeft = 0 => StatusMessage(summary).kind = "Month ended"

\* C29: the monthly expense total of the Dashboard, selected by month and
\* year of the date, is the totalSpent of calculateBudgetSummary for that
\* month.
C29_SameMonthlyExpenses ==
    Done => computeMonthlyTotals(transactions, month - 1, year).monthlyExpenses
                = summary.totalSpent

(* Insights: subscription and fetches under way *)

\* C21: a notification that arrives starts a fetch with the selected view
\* type and timeframe if it was sent to the subscription of the mounted page,
\* and starts nothing and changes nothing on the page otherwise.
C21_NotificationRefetches ==
    [][Len(events') < Len(events) =>
          IF mounted /\ Head(events).sub = channel.id
          THEN /\ started' = started + 1
               /\ \E r \in requests' \ requests :
                     /\ r.seq = started'
                     /\ r.viewType = viewType
                     /\ r.timeframe = timeframe
          ELSE UNCHANGED <<requests, started, insightsVars, shown>>]_vars

\* a notification has started a fetch for a selection made after mounting,
\* and a notification sent to an earlier subscription has been dropped
C21_Witness ==
    /\ mounted
    /\ dropped
    /\ \E r \in requests :
          r.cause = "notification" /\ r.viewType = "income" /\ viewType = "income"

\* C26: once every fetch has completed, the page shows the response of the
\* fetch started last, which is the one for the selected view type and
\* timeframe.
C26_LatestFetchShown ==
    (mounted /\ requests = {}) =>
        /\ shown.seq = started
        /\ shown.viewType = viewType
        /\ shown.timeframe = timeframe

----------------------------------------------------------------------------
(* Admin sign-in, lockout and sessions *)

\* C22: after 3 failed password attempts on an active account with no
\* successful login in between, the account is locked, locked_until being 30
\* minutes after the third failure; with fewer than 3 failures recorded the
\* account is not locked.  Calls made one at a time.
C22_ThreeFailuresLock ==
    [][/\ (result'.returned /\ ~result'.success /\ procs' # procs /\ failures' >= 3)
              => /\ adminRow'.is_active
                 /\ adminRow'.locked_until = dateNow' + LockSpan
                 /\ adminRow'.locked_until > dateNow'
       /\ (failures' < 3 \/ adminRow'.failed_login_attempts < 3)
              => adminRow'.locked_until = NullTime]_vars

C22_Witness ==
    /\ result.returned
    /\ result.error = "Invalid credentials"
    /\ failures = 3
    /\ adminRow.failed_login_attempts = 3
    /\ adminRow.locked_until = dateNow + LockSpan

\* C23: while the account is locked every signIn for it, whatever password
\* and 2FA code it brings, returns 'Account is temporarily locked' and leaves
\* the sessions, the stored token, adminUser and the account row as they
\* are; a signIn that returns success leaves failed_login_attempts = 0 and
\* locked_until cleared.
C23_LockedRefusesAll ==
    [][/\ \A pw \in Passwords, code \in TotpCodes :
              (adminRow.locked_until > dateNow /\ signIn(adminRow.email, pw, code, 1))
                  => /\ result' = Returned(FALSE, "Account is temporarily locked", FALSE)
                     /\ UNCHANGED <<sessions, token, adminUser, adminRow, procs>>
       /\ (result'.returned /\ result'.success)
              => /\ adminRow'.failed_login_attempts = 0
                 /\ adminRow'.locked_until = NullTime]_vars

C23_Witness ==
    /\ result.returned
    /\ result.error = "Account is temporarily locked"
    /\ adminRow.locked_until > dateNow
    /\ adminRow.failed_login_attempts >= 3
    /\ sessions # <<>>

\* the stored token has a row that is active and not past its expiry
ValidSession ==
    /\ token # NoToken
    /\ \E i \in 1..Len(sessions) :
           /\ sessions[i].session_token = token
           /\ sessions[i].is_active
           /\ dateNow <= sessions[i].expires_at

\* C24: a session row expires one hour after its creation; verifySession
\* returns true exactly when the row of the stored token is active and
\* unexpired, and otherwise removes the token and clears adminUser; signOut
\* of a signed-in admin leaves the row inactive, a row never becomes active
\* again, and checkAdminSession accepts a token only if its row is active
\* and unexpired.
C24_SessionValidity ==
    [][/\ Len(sessions') > Len(sessions)
              => /\ sessions'[Len(sessions')].expires_at = dateNow + SessionSpan
                 /\ sessions'[Len(sessions')].is_active
       /\ verified'.returned
              => /\ verified'.value <=> ValidSession
                 /\ verified'.value => UNCHANGED <<token, adminUser, sessions>>
                 /\ ~verified'.value => token' = NoToken /\ adminUser' = NoAdmin
       /\ ((signOut \/ (verified'.returned /\ ~verified'.value))
               /\ token # NoToken /\ adminUser # NoAdmin)
              => \A i \in 1..Len(sessions) :
                     sessions[i].session_token = token => ~sessions'[i].is_active
       /\ \A i \in 1..Len(sessions) : ~sessions[i].is_active => ~sessions'[i].is_active
       /\ checkAdminSession => (adminUser' # NoAdmin <=> ValidSession)]_vars

C24_Witness ==
    /\ verified.returned
    /\ ~verified.value
    /\ token = NoToken
    /\ adminUser = NoAdmin
    /\ Len(sessions) = 1
    /\ ~sessions[1].is_active
    /\ dateNow <= sessions[1].expires_at

\* C30: with signIn calls under way at the same time, once they have all
\* returned failed_login_attempts equals the number of failed password
\* attempts since the last successful login; stated for an account nobody
\* has logged into yet, where that number is the number of all failed
\* password attempts.
C30_NoLostIncrement ==
    (procs = {} /\ adminRow.last_login = NullTime)
        => adminRow.failed_login_attempts = failures


----------------------------------------------------------------------------
(* Maintenance mode *)

\* C25: once loading is over, the maintenance page is rendered iff the value
\* of maintenance_mode the wrapper was given last, by its check or by an
\* UPDATE notification, is 'true' and no admin is signed in; a signed-in
\* admin gets the application, and so does everybody after a failed check.
C25_MaintenancePageIff ==
    ~loading =>
        /\ Render = "maintenance" <=> (observed = "true" /\ adminUser = NoAdmin)
        /\ Render # "maintenance" => Render = "children"
        /\ adminUser # NoAdmin => Render = "children"
        /\ observed = "error" => Render = "children"

C25_Witness ==
    /\ Render = "maintenance"
    /\ check.pc = "done"
    /\ check.value = "false"
    /\ observed = "true"
    /\ sessions # <<>>

====
